---- MODULE Spec2Model ----
(***************************************************************************)
(* Universal MCP client: the OIDC session registry (UniversalOIDCManager), *)
(* the working set kept by ServerProvider, and the JSON-RPC protocol       *)
(* client (MCPClient), as a state machine.                                 *)
(*                                                                         *)
(* Strings that the code only compares are TLA+ strings.  Strings whose    *)
(* characters the code inspects (server ids inside storage keys, response  *)
(* bodies) are sequences of symbols.                                       *)
(***************************************************************************)
EXTENDS Integers, Sequences, FiniteSets, TLC

VARIABLES
    clients,        \* UniversalOIDCManager.clients: ids in Map insertion order
    tokens,         \* UniversalOIDCManager.tokens: id -> TokenInfo
    serverConfigs,  \* UniversalOIDCManager.serverConfigs: id -> MCPServer
    lsTokens,       \* localStorage['mcp_tokens']
    lsConfigs,      \* localStorage['mcp_server_configs']
    lsServers,      \* localStorage['mcp_servers']
    lsUsers,        \* localStorage keys written by the per-server userStore: key -> User
    hint,           \* sessionStorage['mcp_auth_server_id'] (<<>> when absent)
    servers,        \* ServerProvider state: the working set
    now,            \* Date.now(), in milliseconds
    last,           \* what the last invoked operation did and returned
    universe,       \* the ids callers use and the id tokens the provider issues
    resp,           \* the HTTP response handed to makeRequest (parsing specification)
    parsed,         \* what makeRequest made of resp
    stdio,          \* a stdio tool client (FileSystemClient, WeatherClient) and its callers
    pending         \* the refreshServerTools calls waiting for their listTools

vars == <<clients, tokens, serverConfigs, lsTokens, lsConfigs, lsServers,
          lsUsers, hint, servers, now, last, universe, resp, parsed, stdio, pending>>

\* Everything but the stdio tool client.
appVars == <<clients, tokens, serverConfigs, lsTokens, lsConfigs, lsServers,
             lsUsers, hint, servers, now, last, universe, resp, parsed, pending>>

regVars == <<clients, tokens, serverConfigs, lsTokens, lsConfigs, lsServers,
             lsUsers, hint, servers, now, last, universe>>

-----------------------------------------------------------------------------
(* Bounds *)

\* The clock runs from 0 to MaxTicks seconds.
MaxTicks == 1

\* Longest response body, in symbols.
MaxBody == 5

\* Most Client objects a stdio tool client constructs.
MaxClients == 2

\* Most refreshServerTools calls that send a request.
MaxRefreshes == 2

-----------------------------------------------------------------------------
(* Partial maps (Map / JSON object) *)

Put(f, k, v) == [x \in (DOMAIN f) \cup {k} |-> IF x = k THEN v ELSE f[x]]

Del(f, k) == [x \in (DOMAIN f) \ {k} |-> f[x]]

Empty == [x \in {} |-> 0]

\* Map.set on an insertion-ordered Map: an existing key keeps its place.
SeqSet(s, k) == IF \E i \in 1..Len(s) : s[i] = k THEN s ELSE Append(s, k)

\* Map.delete / Array.filter(x => x !== k)
SeqDel(s, k) == SelectSeq(s, LAMBDA x : x # k)

Has(s, k) == \E i \in 1..Len(s) : s[i] = k

\* String.prototype.startsWith on symbol sequences.
StartsWith(s, p) == /\ Len(p) <= Len(s)
                    /\ SubSeq(s, 1, Len(p)) = p

-----------------------------------------------------------------------------
(* Server ids, descriptors, users *)

\* The absent id: null, undefined and '' are all falsy in the code.
NoId == <<>>

IdA  == <<"a">>
IdAB == <<"a", "_", "b">>
IdC  == <<"c">>

Ids == {IdA, IdAB, IdC}

\* Two ids neither of which continues the other, and two of which one does.
PlainIds == {IdA, IdC}

NestedIds == {IdA, IdAB}

-----------------------------------------------------------------------------
(* MCPClient.makeRequest: the response side (mcp-client.ts 198-246) *)

\* A response body is a sequence of symbols.  "data: " stands for those six
\* characters, "A" and "B" for the texts of two different JSON-RPC envelopes,
\* "x" for text that is not JSON, " " and "\n" for themselves.
Sym == {"data: ", "\n", " ", "A", "B", "x"}

DataPrefix == <<"data: ">>

NoError == [code |-> 0, message |-> ""]

NoEnv == [jsonrpc |-> "", result |-> "", error |-> NoError]

\* The envelope that the text "A" ("B") denotes: A carries a result, B an error.
EnvOf(sym) ==
    IF sym = "A"
    THEN [jsonrpc |-> "2.0", result |-> "resultA", error |-> NoError]
    ELSE [jsonrpc |-> "2.0", result |-> "",
          error |-> [code |-> -32601, message |-> "Method not found"]]

\* JSON.parse / Response.json on the symbol alphabet: optional whitespace, one
\* value, optional whitespace; anything else is a SyntaxError.
JsonWs == {" ", "\n"}

JsonParses(text) ==
    LET body == SelectSeq(text, LAMBDA c : c \notin JsonWs)
    IN  /\ Len(body) = 1
        /\ body[1] \in {"A", "B"}

JsonValue(text) == EnvOf(SelectSeq(text, LAMBDA c : c \notin JsonWs)[1])

\* text.split('\n')
RECURSIVE SplitAcc(_, _, _, _)
SplitAcc(text, i, cur, acc) ==
    IF i > Len(text) THEN Append(acc, cur)
    ELSE IF text[i] = "\n" THEN SplitAcc(text, i + 1, <<>>, Append(acc, cur))
    ELSE SplitAcc(text, i + 1, Append(cur, text[i]), acc)

SplitLines(text) == SplitAcc(text, 1, <<>>, <<>>)

\* lines.filter(line => line.startsWith('data: '))
DataLines(text) == SelectSeq(SplitLines(text), LAMBDA l : StartsWith(l, DataPrefix))

\* dataLines[dataLines.length - 1].substring(6)
FirstLinePayload(text) ==
    LET dl == DataLines(text) IN SubSeq(dl[1], Len(DataPrefix) + 1, Len(dl[1]))

SelectedPayload(text) ==
    LET dl == DataLines(text)
    IN  SubSeq(dl[Len(dl)], Len(DataPrefix) + 1, Len(dl[Len(dl)]))

\* contentType?.includes('text/event-stream'); a missing header is <<>>.
EventStream == "text/event-stream"

IsEventStream(ctype) == \E i \in 1..Len(ctype) : ctype[i] = EventStream

NoResponse == [status |-> 0, ctype |-> <<>>, body |-> <<>>]

\* fetch rejected (no response at all) is the response with status 0.
FetchRejected(r) == r.status = 0

\* ResponseOk with a fault: only 5xx statuses are refused.
ResponseOkBelow500(r) == r.status >= 200 /\ r.status <= 499

\* response.ok
ResponseOk(r) == r.status >= 200 /\ r.status <= 299

\* A thrown Error: its kind, and the HTTP status its message quotes (0: none).
Failure(kind) == [kind |-> kind, data |-> NoEnv, status |-> 0]

Pending == [kind |-> "pending", data |-> NoEnv, status |-> 0]

\* ParseSse with a fault: the first data line is taken, not the last.
ParseSseFirst(text) ==
    IF Len(DataLines(text)) = 0 THEN Failure("NoDataError")
    ELSE IF ~JsonParses(FirstLinePayload(text)) THEN Failure("SyntaxError")
    ELSE [kind |-> "ok", data |-> JsonValue(FirstLinePayload(text)), status |-> 0]

ParseSse(text) ==
    IF Len(DataLines(text)) = 0 THEN Failure("NoDataError")
    ELSE IF ~JsonParses(SelectedPayload(text)) THEN Failure("SyntaxError")
    ELSE [kind |-> "ok", data |-> JsonValue(SelectedPayload(text)), status |-> 0]

\* ParsePlain with a fault: a body that is not JSON yields an empty envelope.
ParsePlainLenient(text) ==
    IF ~JsonParses(text) THEN [kind |-> "ok", data |-> NoEnv, status |-> 0]
    ELSE [kind |-> "ok", data |-> JsonValue(text), status |-> 0]

ParsePlain(text) ==
    IF ~JsonParses(text) THEN Failure("SyntaxError")
    ELSE [kind |-> "ok", data |-> JsonValue(text), status |-> 0]

\* What makeRequest returns (kind "ok") or throws (any other kind).
MakeRequest(r) ==
    IF FetchRejected(r) THEN Failure("NetworkError")
    ELSE IF ~ResponseOk(r)
         THEN IF r.status = 401 THEN Failure("AuthRequired")
              ELSE [Failure("HttpError") EXCEPT !.status = r.status]
    ELSE IF IsEventStream(r.ctype) THEN ParseSse(r.body)
    ELSE ParsePlain(r.body)

-----------------------------------------------------------------------------
(* MCPServer descriptors and MCPClient.validateServerConfig *)

\* new URL(string) succeeds
WellFormedUrls == {"http://localhost:8123/mcp", "https://accounts.google.com"}

IsValidUrl(str) == str \in WellFormedUrls

\* String.prototype.trim on the strings used here
Trim(str) == IF str = " " THEN "" ELSE str

\* ValidateServerConfig with a fault: no rule is tested.
ValidateAccepting(server) == <<>>

\* ValidateServerConfig with a fault: the tests stop at the first failure.
ValidateFirstOnly(server) ==
    IF server.name = "" \/ Trim(server.name) = ""
        THEN <<"Server name is required">>
    ELSE IF server.url = "" \/ ~IsValidUrl(server.url)
        THEN <<"Valid server URL is required">>
    ELSE IF server.issuer = "" \/ ~IsValidUrl(server.issuer)
        THEN <<"Valid OIDC issuer URL is required">>
    ELSE IF server.clientId = "" \/ Trim(server.clientId) = ""
        THEN <<"OIDC client ID is required">>
    ELSE IF Len(server.scopes) = 0
        THEN <<"OIDC scopes are required">>
    ELSE IF ~Has(server.scopes, "openid")
        THEN <<"OIDC scopes must include \"openid\"">>
    ELSE <<>>

\* The error list of validateServerConfig, in the order the rules are tested.
ValidateServerConfig(server) ==
    (IF server.name = "" \/ Trim(server.name) = ""
        THEN <<"Server name is required">> ELSE <<>>)
    \o (IF server.url = "" \/ ~IsValidUrl(server.url)
        THEN <<"Valid server URL is required">> ELSE <<>>)
    \o (IF server.issuer = "" \/ ~IsValidUrl(server.issuer)
        THEN <<"Valid OIDC issuer URL is required">> ELSE <<>>)
    \o (IF server.clientId = "" \/ Trim(server.clientId) = ""
        THEN <<"OIDC client ID is required">> ELSE <<>>)
    \o (IF Len(server.scopes) = 0
        THEN <<"OIDC scopes are required">> ELSE <<>>)
    \o (IF ~Has(server.scopes, "openid")
        THEN <<"OIDC scopes must include \"openid\"">> ELSE <<>>)

ConfigValid(server) == Len(ValidateServerConfig(server)) = 0

\* The descriptors a caller may submit for an id: a well-formed one, and the
\* ones that differ from it in one field.
GoodDescriptor(id) ==
    [id |-> id, name |-> "Weather Service", url |-> "http://localhost:8123/mcp",
     issuer |-> "https://accounts.google.com", clientId |-> "client-1",
     scopes |-> <<"openid", "email", "profile">>]

DescriptorsOf(id) ==
    LET good == GoodDescriptor(id)
    IN  {good,
         [good EXCEPT !.name = ""],
         [good EXCEPT !.url = "localhost"],
         [good EXCEPT !.issuer = "accounts"],
         [good EXCEPT !.clientId = " "],
         [good EXCEPT !.scopes = <<"email", "profile">>],
         [good EXCEPT !.scopes = <<>>]}

Descriptors == UNION {DescriptorsOf(id) : id \in Ids}

\* The rules as the specification lists them, for the claims.
RuleViolated(server) ==
    \/ server.name \in {"", " "}
    \/ server.url \notin WellFormedUrls
    \/ server.issuer \notin WellFormedUrls
    \/ server.clientId \in {"", " "}
    \/ \A i \in 1..Len(server.scopes) : server.scopes[i] # "openid"

-----------------------------------------------------------------------------
(* Tokens and users *)

\* id_token of a user: "" is a user without one (User.id_token is optional,
\* and handleTokenUpdate stores user.id_token || '').
IdTokens == {"", "jwt"}

\* Timer.getEpochTime(): seconds
EpochSeconds(t) == t \div 1000

\* The users an identity provider may hand back at time t: their token lives
\* one second.
IssuedUsers(t) ==
    [id_token : universe.idTokens, expires_at : {EpochSeconds(t) + 1}]

\* User.expired (oidc-client-ts): expires_at - now <= 0
UserExpired(user, t) == user.expires_at - EpochSeconds(t) <= 0

\* The userStore key of a server: prefix `oidc_${server.id}_`, then the
\* store's own key for the user ("user:<authority>:<client_id>").
StorePrefix(id) == <<"oidc_">> \o id \o <<"_">>

UserKey(id) == StorePrefix(id) \o <<"user:">>

-----------------------------------------------------------------------------
(* The registry and the working set, as one value the handlers transform *)

State ==
    [clients |-> clients, tokens |-> tokens, serverConfigs |-> serverConfigs,
     lsTokens |-> lsTokens, lsConfigs |-> lsConfigs, lsServers |-> lsServers,
     lsUsers |-> lsUsers, servers |-> servers, events |-> <<>>]

Commit(M) ==
    /\ clients' = M.clients
    /\ tokens' = M.tokens
    /\ serverConfigs' = M.serverConfigs
    /\ lsTokens' = M.lsTokens
    /\ lsConfigs' = M.lsConfigs
    /\ lsServers' = M.lsServers
    /\ lsUsers' = M.lsUsers
    /\ servers' = M.servers

\* MCPServer.tools is optional: the value of an entry that has none.
NoTools == <<"undefined">>

\* The record left in `last` by an operation: its name, the id it was given
\* and how it ended.  addServer adds the descriptor it was given (server); a
\* callback adds the id it resolved (target) and the Session it completed the
\* flow on (on); a protocol call adds the HTTP requests it sent (fetches) and
\* the bearer token they carried, the response it got, the value it returned
\* (the part of the envelope at `path`; <<>> is the whole envelope) and what
\* the Error it threw exposes of the envelope's error object.  A callback also
\* adds what ensureClient returned (found), whether ensureClient built the
\* Session (recreated), and whether this is the second invocation for one
\* redirect (again).  authenticate adds whether the call came right after a
\* removeServer of the same id (afterRemove).  A validation adds its error
\* list (errors).  authenticate adds the hint it found (hintBefore); a reload
\* adds the Token Cache as the constructor left it (loaded); an operation that
\* ran addServer adds whether the restore probe returned (probeOk).  Every
\* operation adds the window events dispatched while it ran (events).  A
\* completed refreshServerTools adds the tools listTools returned (tools).

NoValue == [path |-> <<>>, env |-> NoEnv]

NoServer ==
    [id |-> NoId, name |-> "", url |-> "", issuer |-> "", clientId |-> "",
     scopes |-> <<>>]

Did(op, id, outcome) ==
    [op |-> op, id |-> id, outcome |-> outcome, server |-> NoServer,
     target |-> id, on |-> NoId, fetches |-> 0, bearer |-> "",
     response |-> NoResponse, value |-> NoValue, exposed |-> NoError,
     found |-> NoId, recreated |-> FALSE, again |-> FALSE, afterRemove |-> FALSE,
     errors |-> <<>>, hintBefore |-> NoId, loaded |-> Empty, probeOk |-> TRUE,
     events |-> <<>>, tools |-> NoTools]

InWorkingSet(list, id) == \E i \in 1..Len(list) : list[i].server.id = id

\* ServerProvider.updateServerStatus, run with the `servers` its closure holds;
\* setServers and saveServersToStorage get the same list.
UpdateServerStatus(M, closure, id, status) ==
    IF InWorkingSet(closure, id)
    THEN LET upd == [i \in 1..Len(closure) |->
                        IF closure[i].server.id = id
                        THEN [closure[i] EXCEPT !.status = status]
                        ELSE closure[i]]
         IN  [M EXCEPT !.servers = upd, !.lsServers = upd]
    ELSE IF id \in DOMAIN M.lsConfigs
    THEN LET upd == Append(closure, [server |-> M.lsConfigs[id], status |-> status,
                                    tools |-> NoTools])
         IN  [M EXCEPT !.servers = upd, !.lsServers = upd]
    ELSE M

\* The 'oidc:token-updated' / 'oidc:token-removed' listeners.  They are
\* installed by the mount effect (dependency list []), so the
\* updateServerStatus they call is the first render's, whose `servers` is the
\* initial state [].
OnTokenEvent(M, id, status) == UpdateServerStatus(M, <<>>, id, status)

\* saveTokensToStorage
SaveTokens(M) == [M EXCEPT !.lsTokens = M.tokens]

\* saveServerConfigsToStorage
SaveServerConfigs(M) == [M EXCEPT !.lsConfigs = M.serverConfigs]

\* No TokenInfo: what getTokenInfo returns for an id without a record, and the
\* detail of an event that carries none.
NoToken == [id_token |-> "", expires_at |-> -1]

\* getTokenInfo(serverId), and the same read of a persisted token map.
Entry(cache, id) == IF id \in DOMAIN cache THEN cache[id] ELSE NoToken

\* window.dispatchEvent(new CustomEvent(type, {detail})): delivery is
\* synchronous, so a listener reads the Token Cache and mcp_tokens as they are
\* at the dispatch; cached and persisted are what it reads for serverId.
Dispatch(M, type, id, tokenInfo) ==
    [M EXCEPT !.events = Append(@, [type |-> type, serverId |-> id,
                                    tokenInfo |-> tokenInfo,
                                    cached |-> Entry(M.tokens, id),
                                    persisted |-> Entry(M.lsTokens, id)])]

\* HandleTokenUpdate with a fault: the event is dispatched before the record
\* is stored.
HandleTokenUpdateAnnouncingFirst(M, id, user) ==
    LET tokenInfo == [id_token |-> user.id_token, expires_at |-> user.expires_at]
        M1 == Dispatch(M, "oidc:token-updated", id, tokenInfo)
        M2 == SaveTokens([M1 EXCEPT !.tokens = Put(M1.tokens, id, tokenInfo)])
    IN  OnTokenEvent(M2, id, "connected")

\* handleTokenUpdate(serverId, user)
HandleTokenUpdate(M, id, user) ==
    LET tokenInfo == [id_token |-> user.id_token, expires_at |-> user.expires_at]
        M1 == SaveTokens([M EXCEPT !.tokens = Put(M.tokens, id, tokenInfo)])
        M2 == Dispatch(M1, "oidc:token-updated", id, tokenInfo)
    IN  OnTokenEvent(M2, id, "connected")

\* handleTokenRemoved(serverId)
HandleTokenRemoved(M, id) ==
    LET M1 == SaveTokens([M EXCEPT !.tokens = Del(M.tokens, id)])
        M2 == Dispatch(M1, "oidc:token-removed", id, NoToken)
    IN  OnTokenEvent(M2, id, "disconnected")

\* AddServer with a fault: the probe restores a stored user whatever its expiry.
AddServerRestoringExpired(M, server, t, probeOk) ==
    LET id == server.id
        M1 == SaveServerConfigs([M EXCEPT !.serverConfigs = Put(M.serverConfigs, id, server)])
        M2 == [M1 EXCEPT !.clients = SeqSet(M1.clients, id)]
        key == UserKey(id)
    IN  IF probeOk /\ key \in DOMAIN M2.lsUsers
        THEN HandleTokenUpdate(M2, id, M2.lsUsers[key])
        ELSE M2

\* UniversalOIDCManager.addServer at time t; probeOk is whether client.getUser()
\* returned (TRUE) or threw (FALSE).
AddServer(M, server, t, probeOk) ==
    LET id == server.id
        M1 == SaveServerConfigs([M EXCEPT !.serverConfigs = Put(M.serverConfigs, id, server)])
        M2 == [M1 EXCEPT !.clients = SeqSet(M1.clients, id)]
        key == UserKey(id)
    IN  IF probeOk /\ key \in DOMAIN M2.lsUsers /\ ~UserExpired(M2.lsUsers[key], t)
        THEN HandleTokenUpdate(M2, id, M2.lsUsers[key])
        ELSE M2

\* EnsureClient with a fault: a missing Session is never built.
EnsureClientInMemoryOnly(M, id, t, probeOk) ==
    [m |-> M, client |-> IF Has(M.clients, id) THEN id ELSE NoId, recreated |-> FALSE]

\* ensureClient(serverId): the state afterwards, the client found (NoId:
\* undefined) and whether addServer was run to build it.
EnsureClient(M, id, t, probeOk) ==
    IF Has(M.clients, id) THEN [m |-> M, client |-> id, recreated |-> FALSE]
    ELSE IF id \in DOMAIN M.serverConfigs
    THEN LET M1 == AddServer(M, M.serverConfigs[id], t, probeOk)
         IN  [m |-> M1, client |-> IF Has(M1.clients, id) THEN id ELSE NoId,
              recreated |-> TRUE]
    ELSE [m |-> M, client |-> NoId, recreated |-> FALSE]

\* The localStorage keys removeServer collects: those starting with `oidc_${serverId}_`
KeysToRemove(M, id) == {k \in DOMAIN M.lsUsers : StartsWith(k, StorePrefix(id))}

\* UniversalOIDCManager.removeServer(serverId)
RemoveServer(M, id) ==
    LET M1 == [M EXCEPT !.clients = SeqDel(M.clients, id),
                        !.tokens = Del(M.tokens, id),
                        !.serverConfigs = Del(M.serverConfigs, id)]
        M2 == SaveServerConfigs(M1)
        gone == KeysToRemove(M2, id)
    IN  [M2 EXCEPT !.lsUsers = [k \in (DOMAIN M2.lsUsers) \ gone |-> M2.lsUsers[k]]]

\* IsAuthenticatedAt with a fault: the expiry is not looked at.
IsAuthenticatedIgnoringExpiry(M, id, t) == id \in DOMAIN M.tokens

\* isAuthenticated(serverId) at time t
IsAuthenticatedAt(M, id, t) ==
    IF id \in DOMAIN M.tokens THEN t < M.tokens[id].expires_at * 1000 ELSE FALSE

IsAuthenticated(id) == IsAuthenticatedAt(State, id, now)

\* GetIdToken with a fault: a missing record yields a placeholder, not null.
GetIdTokenOrAnonymous(id) ==
    IF id \in DOMAIN tokens THEN tokens[id].id_token ELSE "anonymous"

\* getIdToken(serverId): "" stands for null (token?.id_token || null)
GetIdToken(id) == IF id \in DOMAIN tokens THEN tokens[id].id_token ELSE ""

\* LoadTokens with a fault: expired entries are loaded too.
LoadTokensAll(stored, t) == stored

\* loadTokensFromStorage at time t
LoadTokens(stored, t) ==
    LET live == {id \in DOMAIN stored : t < stored[id].expires_at * 1000}
    IN  [id \in live |-> stored[id]]

-----------------------------------------------------------------------------
(* The stdio tool clients.  FileSystemClient and WeatherClient are the same
   class but for the server they spawn and the names of their two tools. *)

\* The callers: operations may be started while another one is suspended.
Procs == {1, 2}

StdioTools == {"list_directory", "get_file_info"}

NoCall == [by |-> 0, tool |-> "", client |-> 0, outcome |-> ""]

\* this.client is 0 (null) or the number of the Client object it holds; conn is
\* the connection of each Client constructed so far; pc is where each caller is
\* (idle, awaitConnect, call, awaitClose); awaits and tool are the Client a
\* suspended caller waits on and the tool it is about to call; sinceDisconnect
\* counts the Clients constructed since the last completed disconnect; step is
\* the step taken last and call the last tool call made.
\* No refreshServerTools call is suspended and none has sent a request: calls
\* maps the id of each suspended call to the `servers` it closed over and the
\* token its request carries, started counts the requests sent.
NoPending == [calls |-> <<>>, started |-> 0]

NoStdio ==
    [client |-> 0, conn |-> <<>>, pc |-> [p \in Procs |-> "idle"],
     awaits |-> [p \in Procs |-> 0], tool |-> [p \in Procs |-> ""],
     sinceDisconnect |-> 0, step |-> [kind |-> "new", by |-> 0], call |-> NoCall]

-----------------------------------------------------------------------------
(* Operations *)

Init ==
    /\ clients = <<>>
    /\ tokens = Empty
    /\ serverConfigs = Empty
    /\ lsTokens = Empty
    /\ lsConfigs = Empty
    /\ lsServers = <<>>
    /\ lsUsers = Empty
    /\ hint = NoId
    /\ servers = <<>>
    /\ now = 0
    /\ last = Did("init", NoId, "ok")
    /\ universe = [ids |-> PlainIds, idTokens |-> {"jwt"}]
    /\ resp = NoResponse
    /\ parsed = Pending
    /\ stdio = NoStdio
    /\ pending = NoPending

\* Time passes.
Tick ==
    /\ now < MaxTicks * 1000
    /\ now' = now + 1000
    /\ last' = Did("tick", NoId, "ok")
    /\ UNCHANGED <<clients, tokens, serverConfigs, lsTokens, lsConfigs, lsServers,
                   lsUsers, hint, servers, universe, resp, parsed, stdio, pending>>

\* Ids are unique: a new server never takes an id that is or was in use here.
FreshId(id) ==
    /\ id \notin DOMAIN serverConfigs
    /\ id \notin DOMAIN lsConfigs
    /\ id \notin DOMAIN lsTokens
    /\ UserKey(id) \notin DOMAIN lsUsers
    /\ ~InWorkingSet(servers, id)
    /\ ~InWorkingSet(lsServers, id)
    /\ hint # id

\* ServerProvider.addServer(server)
UIAddServer(server, probeOk) ==
    /\ FreshId(server.id)
    /\ IF Len(ValidateServerConfig(server)) # 0
       THEN /\ last' = [Did("addServer", server.id, "ConfigurationError")
                            EXCEPT !.server = server,
                                   !.errors = ValidateServerConfig(server)]
            /\ UNCHANGED <<clients, tokens, serverConfigs, lsTokens, lsConfigs,
                           lsServers, lsUsers, servers>>
       ELSE LET M1 == AddServer(State, server, now, probeOk)
                upd == Append(servers, [server |-> server, status |-> "disconnected",
                                        tools |-> NoTools])
            IN  /\ Commit([M1 EXCEPT !.servers = upd, !.lsServers = upd])
                /\ last' = [Did("addServer", server.id, "ok")
                            EXCEPT !.server = server, !.probeOk = probeOk,
                                   !.events = M1.events]
    /\ UNCHANGED <<hint, now, universe, resp, parsed, stdio, pending>>

\* ServerProvider.removeServer(serverId)
UIRemoveServer(id) ==
    /\ LET M1 == RemoveServer(State, id)
           upd == SelectSeq(servers, LAMBDA e : e.server.id # id)
       IN  /\ Commit([M1 EXCEPT !.servers = upd, !.lsServers = upd])
           /\ last' = [Did("removeServer", id, "ok") EXCEPT !.events = M1.events]
    /\ UNCHANGED <<hint, now, universe, resp, parsed, stdio, pending>>

\* Authenticate with a fault: the Session map is not consulted.
AuthenticateUnchecked(id, redirectOk) ==
    /\ hint' = id
    /\ last' = [Did("authenticate", id, IF redirectOk THEN "redirect" ELSE "RedirectError")
                 EXCEPT !.afterRemove = (last.op = "removeServer" /\ last.id = id)]
    /\ UNCHANGED <<clients, tokens, serverConfigs, lsTokens, lsConfigs, lsServers,
                   lsUsers, servers, now, universe, resp, parsed, stdio, pending>>

\* Authenticate with a fault: a hint already in the store is not overwritten.
AuthenticateKeepingFirstHint(id, redirectOk) ==
    /\ IF ~Has(clients, id)
       THEN /\ last' = [Did("authenticate", id, "NoClientError")
                        EXCEPT !.afterRemove = (last.op = "removeServer" /\ last.id = id)]
            /\ UNCHANGED hint
       ELSE /\ hint' = IF hint = NoId THEN id ELSE hint
            /\ last' = [Did("authenticate", id,
                            IF redirectOk THEN "redirect" ELSE "RedirectError")
                        EXCEPT !.hintBefore = hint]
    /\ UNCHANGED <<clients, tokens, serverConfigs, lsTokens, lsConfigs, lsServers,
                   lsUsers, servers, now, universe, resp, parsed, stdio, pending>>

\* ServerProvider.authenticateServer -> UniversalOIDCManager.authenticate;
\* redirectOk is whether client.signinRedirect() resolved or threw.
Authenticate(id, redirectOk) ==
    /\ IF ~Has(clients, id)
       THEN /\ last' = [Did("authenticate", id, "NoClientError")
                        EXCEPT !.afterRemove = (last.op = "removeServer" /\ last.id = id)]
            /\ UNCHANGED hint
       ELSE /\ hint' = id
            /\ last' = [Did("authenticate", id,
                            IF redirectOk THEN "redirect" ELSE "RedirectError")
                        EXCEPT !.hintBefore = hint]
    /\ UNCHANGED <<clients, tokens, serverConfigs, lsTokens, lsConfigs, lsServers,
                   lsUsers, servers, now, universe, resp, parsed, stdio, pending>>

\* signinRedirectCallback threw (error parameter, state mismatch, failed code exchange).
NoUser == [id_token |-> "", expires_at |-> -1]

\* What client.signinRedirectCallback() may do at time t: throw, or resolve to a user.
CallbackResults(t) == IssuedUsers(t) \cup {NoUser}

\* The Session handleCallback completes the flow on, given what ensureClient found:
\* that client, else the first client of the Map, else none.
ChosenClient(found, M) ==
    IF found # NoId THEN found
    ELSE IF Len(M.clients) > 0 THEN M.clients[1]
    ELSE NoId

\* CallbackStep with a fault: the hint is read but left in the store.
CallbackStepKeepingHint(serverId, probeOk, cb, again) ==
    LET fromHint == serverId = NoId
        target   == IF fromHint THEN hint ELSE serverId
        ec       == IF target # NoId
                    THEN EnsureClient(State, target, now, probeOk)
                    ELSE [m |-> State, client |-> NoId, recreated |-> FALSE]
        client   == ChosenClient(ec.client, ec.m)
        did      == [Did("handleCallback", serverId, "NoClientError")
                        EXCEPT !.target = target, !.on = client,
                               !.found = ec.client, !.recreated = ec.recreated,
                               !.again = again, !.probeOk = probeOk]
    IN  /\ hint' = hint
        /\ IF client = NoId
           THEN /\ Commit(ec.m)
                /\ last' = [did EXCEPT !.events = ec.m.events]
           ELSE IF cb = NoUser
           THEN /\ Commit(ec.m)
                /\ last' = [did EXCEPT !.outcome = "CallbackError", !.events = ec.m.events]
           ELSE LET M1 == [ec.m EXCEPT !.lsUsers = Put(ec.m.lsUsers, UserKey(client), cb)]
                    M2 == HandleTokenUpdate(M1, client, cb)
                IN  /\ Commit(M2)
                    /\ last' = [did EXCEPT !.outcome = "ok", !.events = M2.events]
        /\ UNCHANGED <<now, universe, resp, parsed, stdio, pending>>

\* UniversalOIDCManager.handleCallback(serverId); serverId = NoId when the caller
\* passes none.  A resolved signinRedirectCallback has stored the user under the
\* client's userStore key and raised its userLoaded event.
CallbackStep(serverId, probeOk, cb, again) ==
    LET fromHint == serverId = NoId
        target   == IF fromHint THEN hint ELSE serverId
        ec       == IF target # NoId
                    THEN EnsureClient(State, target, now, probeOk)
                    ELSE [m |-> State, client |-> NoId, recreated |-> FALSE]
        client   == ChosenClient(ec.client, ec.m)
        did      == [Did("handleCallback", serverId, "NoClientError")
                        EXCEPT !.target = target, !.on = client,
                               !.found = ec.client, !.recreated = ec.recreated,
                               !.again = again, !.probeOk = probeOk]
    IN  /\ hint' = IF fromHint THEN NoId ELSE hint
        /\ IF client = NoId
           THEN /\ Commit(ec.m)
                /\ last' = [did EXCEPT !.events = ec.m.events]
           ELSE IF cb = NoUser
           THEN /\ Commit(ec.m)
                /\ last' = [did EXCEPT !.outcome = "CallbackError", !.events = ec.m.events]
           ELSE LET M1 == [ec.m EXCEPT !.lsUsers = Put(ec.m.lsUsers, UserKey(client), cb)]
                    M2 == HandleTokenUpdate(M1, client, cb)
                IN  /\ Commit(M2)
                    /\ last' = [did EXCEPT !.outcome = "ok", !.events = M2.events]
        /\ UNCHANGED <<now, universe, resp, parsed, stdio, pending>>

\* The callback page calls handleCallback for the redirect it was loaded with.
HandleCallback(serverId, probeOk, cb) == CallbackStep(serverId, probeOk, cb, FALSE)

\* The callback page's effect runs a second time for the same redirect (the
\* page remounts): handleCallback is called again with the same argument.  The
\* signin state of the redirect was consumed by the first signinRedirectCallback,
\* so a second one throws.
HandleCallbackAgain(probeOk) ==
    /\ last.op = "handleCallback"
    /\ ~last.again
    /\ CallbackStep(last.id, probeOk, NoUser, TRUE)

\* ServerProvider.signOutServer -> UniversalOIDCManager.signOut.  signoutRedirect
\* removes the stored user and then builds the end-session request, which can
\* throw: how is "ok", "ThrewBeforeRemove" or "ThrewAfterRemove".
SignOut(id, how) ==
    /\ IF ~Has(clients, id)
       THEN /\ last' = Did("signOut", id, "NoClientError")
            /\ UNCHANGED <<clients, tokens, serverConfigs, lsTokens, lsConfigs,
                           lsServers, lsUsers, servers>>
       ELSE LET M0 == State
                M1 == IF how = "ThrewBeforeRemove" THEN M0
                      ELSE [M0 EXCEPT !.lsUsers = Del(M0.lsUsers, UserKey(id))]
            IN  IF how = "ok"
                THEN /\ Commit(UpdateServerStatus(HandleTokenRemoved(M1, id),
                                                  servers, id, "disconnected"))
                     /\ last' = [Did("signOut", id, "ok")
                                 EXCEPT !.events = HandleTokenRemoved(M1, id).events]
                ELSE /\ Commit(M1)
                     /\ last' = Did("signOut", id, "SignOutError")
    /\ UNCHANGED <<hint, now, universe, resp, parsed, stdio, pending>>

\* A Session's userLoaded event outside a callback: automatic silent renewal
\* stored a renewed user.  It needs a Session in memory with a stored user.
UserLoaded(id, user) ==
    /\ Has(clients, id)
    /\ UserKey(id) \in DOMAIN lsUsers
    /\ LET M1 == [State EXCEPT !.lsUsers = Put(lsUsers, UserKey(id), user)]
           M2 == HandleTokenUpdate(M1, id, user)
       IN  /\ Commit(M2)
           /\ last' = [Did("userLoaded", id, "ok") EXCEPT !.events = M2.events]
    /\ UNCHANGED <<hint, now, universe, resp, parsed, stdio, pending>>

\* A Session's userSignedOut event: the provider reports the user signed out.
UserSignedOut(id) ==
    /\ Has(clients, id)
    /\ Commit(HandleTokenRemoved(State, id))
    /\ last' = [Did("userSignedOut", id, "ok")
                 EXCEPT !.events = HandleTokenRemoved(State, id).events]
    /\ UNCHANGED <<hint, now, universe, resp, parsed, stdio, pending>>

\* The status loadServersFromStorage gives each stored server.
WithLoadedStatus(stored, M, t) ==
    [i \in 1..Len(stored) |->
        [stored[i] EXCEPT !.status =
            IF IsAuthenticatedAt(M, stored[i].server.id, t)
            THEN "connected" ELSE "disconnected"]]

\* parsed.forEach(async server => await oidcManager.addServer(server))
RECURSIVE AddStored(_, _, _, _, _)
AddStored(M, stored, i, t, probeOk) ==
    IF i > Len(stored) THEN M
    ELSE AddStored(AddServer(M, stored[i].server, t, probeOk), stored, i + 1, t, probeOk)

\* The page is loaded again: the UniversalOIDCManager constructor, then the
\* ServerProvider mount effect (loadServersFromStorage).
Reload(probeOk) ==
    /\ LET M0 == [State EXCEPT !.clients = <<>>,
                               !.tokens = LoadTokens(lsTokens, now),
                               !.serverConfigs = lsConfigs,
                               !.servers = <<>>]
           M1 == [M0 EXCEPT !.servers = WithLoadedStatus(lsServers, M0, now)]
           M2 == AddStored(M1, lsServers, 1, now, probeOk)
       IN  /\ Commit(M2)
           /\ last' = [Did("reload", NoId, "ok")
                        EXCEPT !.loaded = LoadTokens(lsTokens, now),
                               !.probeOk = probeOk, !.events = M2.events]
    /\ UNCHANGED <<hint, now, universe, resp, parsed, stdio, pending>>

-----------------------------------------------------------------------------
(* MCPClient operations *)

ClientOps == {"initialize", "listTools", "callTool", "listResources",
              "readResource", "listPrompts"}

JsonType == <<"application/json">>

\* Responses a server may give to a request of the registry specification.
SampleResponses ==
    {[status |-> 200, ctype |-> JsonType, body |-> <<"A">>],
     [status |-> 200, ctype |-> JsonType, body |-> <<"B">>],
     [status |-> 200, ctype |-> JsonType, body |-> <<"x">>],
     [status |-> 401, ctype |-> JsonType, body |-> <<"x">>],
     NoResponse}

\* The part of the envelope an operation returns: initialize the envelope
\* itself, callTool and readResource its result, the list operations one field
\* of its result (or [] when that is missing).
ReturnPath(op) ==
    CASE op = "initialize"    -> <<>>
      [] op = "listTools"     -> <<"result", "tools">>
      [] op = "callTool"      -> <<"result">>
      [] op = "listResources" -> <<"result", "resources">>
      [] op = "readResource"  -> <<"result">>
      [] op = "listPrompts"   -> <<"result", "prompts">>

\* new Error(`...: ${response.error.message}`): the message text only.
ThrownFor(error) == [code |-> 0, message |-> error.message]

\* CallOperation with a fault: a failed request is sent once more.
CallOperationRetrying(op, id, r) ==
    LET idToken == GetIdToken(id)
        mr == MakeRequest(r)
        sent == [Did(op, id, mr.kind)
                    EXCEPT !.fetches = IF mr.kind # "ok" THEN 2 ELSE 1,
                           !.bearer = idToken, !.response = r]
    IN  IF idToken = ""
        THEN [Did(op, id, "MissingTokenError") EXCEPT !.fetches = 0]
        ELSE IF mr.kind # "ok" THEN sent
        ELSE IF op # "initialize" /\ mr.data.error # NoError
        THEN [sent EXCEPT !.outcome = "RpcError", !.exposed = ThrownFor(mr.data.error)]
        ELSE [sent EXCEPT !.value = [path |-> ReturnPath(op), env |-> mr.data]]

\* initialize / listTools / callTool / listResources / readResource / listPrompts
\* for server id, when the server would answer r: how the call ends, how many
\* requests it sent and the bearer token they carried.
CallOperation(op, id, r) ==
    LET idToken == GetIdToken(id)
        mr == MakeRequest(r)
        sent == [Did(op, id, mr.kind)
                    EXCEPT !.fetches = 1, !.bearer = idToken, !.response = r]
    IN  IF idToken = ""
        THEN [Did(op, id, "MissingTokenError") EXCEPT !.fetches = 0]
        ELSE IF mr.kind # "ok" THEN sent
        ELSE IF op # "initialize" /\ mr.data.error # NoError
        THEN [sent EXCEPT !.outcome = "RpcError", !.exposed = ThrownFor(mr.data.error)]
        ELSE [sent EXCEPT !.value = [path |-> ReturnPath(op), env |-> mr.data]]

\* ClientCall with a fault: the call uses up the cached token.
ClientCallDroppingToken(op, id, r) ==
    /\ last' = CallOperation(op, id, r)
    /\ tokens' = Del(tokens, id)
    /\ UNCHANGED <<clients, serverConfigs, lsTokens, lsConfigs, lsServers,
                   lsUsers, hint, servers, now, universe, resp, parsed, stdio, pending>>

ClientCall(op, id, r) ==
    /\ last' = CallOperation(op, id, r)
    /\ UNCHANGED <<clients, tokens, serverConfigs, lsTokens, lsConfigs, lsServers,
                   lsUsers, hint, servers, now, universe, resp, parsed, stdio, pending>>

\* listTools is called a second time, right after a first call, for the same
\* server, which has not changed and so answers as it did.
ListToolsAgain ==
    /\ last.op = "listTools"
    /\ ~last.again
    /\ last' = [CallOperation("listTools", last.id, last.response) EXCEPT !.again = TRUE]
    /\ UNCHANGED <<clients, tokens, serverConfigs, lsTokens, lsConfigs, lsServers,
                   lsUsers, hint, servers, now, universe, resp, parsed, stdio, pending>>

-----------------------------------------------------------------------------
(* The registry specification *)

Next ==
    \/ Tick
    \/ \E id \in universe.ids : \E server \in DescriptorsOf(id), probeOk \in BOOLEAN :
          UIAddServer(server, probeOk)
    \/ \E id \in universe.ids : UIRemoveServer(id)
    \/ \E id \in universe.ids, redirectOk \in BOOLEAN : Authenticate(id, redirectOk)
    \/ \E serverId \in universe.ids \cup {NoId}, probeOk \in BOOLEAN,
          cb \in CallbackResults(now) :
          HandleCallback(serverId, probeOk, cb)
    \/ \E probeOk \in BOOLEAN : HandleCallbackAgain(probeOk)
    \/ \E id \in universe.ids, how \in {"ok", "ThrewBeforeRemove", "ThrewAfterRemove"} :
          SignOut(id, how)
    \/ \E probeOk \in BOOLEAN : Reload(probeOk)
    \/ \E id \in universe.ids, user \in IssuedUsers(now) : UserLoaded(id, user)
    \/ \E id \in universe.ids : UserSignedOut(id)

Spec == Init /\ [][Next]_vars

\* The operations a user drives from a server card, together with the protocol
\* client that reads the Token Cache they maintain.
NextClient ==
    \/ Tick
    \/ \E id \in universe.ids : \E server \in DescriptorsOf(id), probeOk \in BOOLEAN :
          UIAddServer(server, probeOk)
    \/ \E id \in universe.ids : UIRemoveServer(id)
    \/ \E id \in universe.ids, redirectOk \in BOOLEAN : Authenticate(id, redirectOk)
    \/ \E serverId \in universe.ids \cup {NoId}, probeOk \in BOOLEAN,
          cb \in CallbackResults(now) :
          HandleCallback(serverId, probeOk, cb)
    \/ \E id \in universe.ids, how \in {"ok", "ThrewBeforeRemove", "ThrewAfterRemove"} :
          SignOut(id, how)
    \/ \E op \in ClientOps, id \in universe.ids, r \in SampleResponses :
          ClientCall(op, id, r)
    \/ ListToolsAgain

SpecClient == Init /\ [][NextClient]_vars

\* The same machine in a harsher environment: ids of which one continues the
\* other.
InitNested ==
    /\ clients = <<>>
    /\ tokens = Empty
    /\ serverConfigs = Empty
    /\ lsTokens = Empty
    /\ lsConfigs = Empty
    /\ lsServers = <<>>
    /\ lsUsers = Empty
    /\ hint = NoId
    /\ servers = <<>>
    /\ now = 0
    /\ last = Did("init", NoId, "ok")
    /\ universe = [ids |-> NestedIds, idTokens |-> {"jwt"}]
    /\ resp = NoResponse
    /\ parsed = Pending
    /\ stdio = NoStdio
    /\ pending = NoPending

SpecNested == InitNested /\ [][Next]_vars

\* One server whose identity provider may hand back users without id_token,
\* with the operations of a server card and the protocol client.
InitAnonymous ==
    /\ clients = <<>>
    /\ tokens = Empty
    /\ serverConfigs = Empty
    /\ lsTokens = Empty
    /\ lsConfigs = Empty
    /\ lsServers = <<>>
    /\ lsUsers = Empty
    /\ hint = NoId
    /\ servers = <<>>
    /\ now = 0
    /\ last = Did("init", NoId, "ok")
    /\ universe = [ids |-> {IdC}, idTokens |-> IdTokens]
    /\ resp = NoResponse
    /\ parsed = Pending
    /\ stdio = NoStdio
    /\ pending = NoPending

SpecAnonymous == InitAnonymous /\ [][NextClient]_vars

-----------------------------------------------------------------------------
(* The refresh specification: refreshServerTools and what may happen while
   its listTools request is in flight *)

\* What result.tools of a tools/list answer may be.
ToolLists == {<<"t1">>, <<"t2">>}

\* What a server may answer to the tools/list request of a refresh: a result,
\* an error object, 401, or nothing (the fetch rejects).
RefreshAnswers ==
    {[status |-> 200, ctype |-> JsonType, body |-> <<"A">>],
     [status |-> 200, ctype |-> JsonType, body |-> <<"B">>],
     [status |-> 401, ctype |-> JsonType, body |-> <<"x">>],
     NoResponse}

\* ServerProvider.updateServer(serverId, {tools, status}), run with the
\* `servers` its closure holds.
UpdateServer(M, closure, id, tools, status) ==
    LET upd == [i \in 1..Len(closure) |->
                   IF closure[i].server.id = id
                   THEN [closure[i] EXCEPT !.tools = tools, !.status = status]
                   ELSE closure[i]]
    IN  [M EXCEPT !.servers = upd, !.lsServers = upd]

\* The authentication branch of refreshServerTools' catch: the status update,
\* then the confirm() prompt and, when confirmed, authenticateServer, whose
\* error is caught.  The hint is the only thing authenticate leaves behind.
HintAfterPrompt(id, confirmed) ==
    IF confirmed /\ Has(clients, id) THEN id ELSE hint

\* refreshServerTools(serverId) up to the request of listTools: the server is
\* looked up in the working set, then mcp_servers, then mcp_server_configs;
\* listTools throws at once when getIdToken gives nothing, else the request
\* leaves with that token and the call is suspended with the `servers` of the
\* render it was started from.
RefreshStart(id, confirmed) ==
    /\ id \notin DOMAIN pending.calls
    /\ IF ~(InWorkingSet(servers, id) \/ InWorkingSet(lsServers, id)
            \/ id \in DOMAIN lsConfigs)
       THEN /\ last' = Did("refreshServerTools", id, "NotFound")
            /\ UNCHANGED <<clients, tokens, serverConfigs, lsTokens, lsConfigs,
                           lsServers, lsUsers, servers, hint, pending>>
       ELSE IF GetIdToken(id) = ""
       THEN /\ Commit(UpdateServerStatus(State, servers, id, "disconnected"))
            /\ hint' = HintAfterPrompt(id, confirmed)
            /\ last' = Did("refreshServerTools", id, "MissingTokenError")
            /\ UNCHANGED pending
       ELSE /\ pending.started < MaxRefreshes
            /\ pending' = [calls |-> Put(pending.calls, id,
                                        [closure |-> servers,
                                         bearer |-> GetIdToken(id)]),
                           started |-> pending.started + 1]
            /\ last' = [Did("refreshServerTools", id, "pending")
                        EXCEPT !.fetches = 1, !.bearer = GetIdToken(id)]
            /\ UNCHANGED <<clients, tokens, serverConfigs, lsTokens, lsConfigs,
                           lsServers, lsUsers, servers, hint>>
    /\ UNCHANGED <<now, universe, resp, parsed, stdio>>

\* The listTools request of a suspended refreshServerTools(id) is answered by
\* r (tools is result.tools when r carries a result): updateServer with the
\* tools and 'connected', or the catch block with 'disconnected' for an
\* authentication error and 'error' for any other.
RefreshSettles(id, r, tools, confirmed) ==
    /\ id \in DOMAIN pending.calls
    /\ LET closure == pending.calls[id].closure
           mr == MakeRequest(r)
           did == [Did("refreshSettled", id, mr.kind)
                   EXCEPT !.bearer = pending.calls[id].bearer]
       IN  IF mr.kind = "ok" /\ mr.data.error = NoError
           THEN /\ Commit(UpdateServer(State, closure, id, tools, "connected"))
                /\ hint' = hint
                /\ last' = [did EXCEPT !.tools = tools]
           ELSE IF mr.kind = "AuthRequired"
           THEN /\ Commit(UpdateServerStatus(State, closure, id, "disconnected"))
                /\ hint' = HintAfterPrompt(id, confirmed)
                /\ last' = did
           ELSE /\ Commit(UpdateServerStatus(State, closure, id, "error"))
                /\ hint' = hint
                /\ last' = IF mr.kind = "ok" THEN [did EXCEPT !.outcome = "RpcError"]
                           ELSE did
    /\ pending' = [pending EXCEPT !.calls = Del(pending.calls, id)]
    /\ UNCHANGED <<now, universe, resp, parsed, stdio>>

\* Servers are registered with a valid descriptor and signed in through a
\* callback that names them, and the user declines the prompt of a failed
\* refresh; what varies is the refreshes and what happens while they wait.
NextRefresh ==
    \/ Tick
    \/ \E id \in universe.ids : UIAddServer(GoodDescriptor(id), TRUE)
    \/ \E id \in universe.ids : UIRemoveServer(id)
    \/ \E serverId \in universe.ids, cb \in IssuedUsers(now) :
          HandleCallback(serverId, TRUE, cb)
    \/ \E id \in universe.ids : SignOut(id, "ok")
    \/ \E id \in universe.ids : RefreshStart(id, FALSE)
    \/ \E id \in universe.ids, r \in RefreshAnswers, tools \in ToolLists :
          RefreshSettles(id, r, tools, FALSE)

SpecRefresh == Init /\ [][NextRefresh]_vars

-----------------------------------------------------------------------------
(* The parsing specification: makeRequest applied to every small response *)

ContentTypes ==
    {<<>>, JsonType, <<EventStream>>, <<EventStream, "; charset=utf-8">>}

RECURSIVE TextsOfLength(_)
TextsOfLength(n) ==
    IF n = 0 THEN {<<>>}
    ELSE {Append(t, c) : t \in TextsOfLength(n - 1), c \in Sym}

Texts == UNION {TextsOfLength(n) : n \in 0..MaxBody}

\* No response, every 2xx response with a body of at most MaxBody symbols, and
\* some responses with other statuses.
Responses ==
    {NoResponse}
    \cup [status : {200}, ctype : ContentTypes, body : Texts]
    \cup [status : {204, 401, 404, 500}, ctype : {JsonType, <<EventStream>>},
          body : {<<"A">>, <<"data: ", "A">>, <<"x">>}]

InitParse ==
    /\ clients = <<>>
    /\ tokens = Empty
    /\ serverConfigs = Empty
    /\ lsTokens = Empty
    /\ lsConfigs = Empty
    /\ lsServers = <<>>
    /\ lsUsers = Empty
    /\ hint = NoId
    /\ servers = <<>>
    /\ now = 0
    /\ last = Did("init", NoId, "ok")
    /\ universe = [ids |-> PlainIds, idTokens |-> {"jwt"}]
    /\ resp \in Responses
    /\ parsed = Pending
    /\ stdio = NoStdio
    /\ pending = NoPending

\* makeRequest receives resp.
ParseResponse ==
    /\ parsed = Pending
    /\ parsed' = MakeRequest(resp)
    /\ UNCHANGED <<clients, tokens, serverConfigs, lsTokens, lsConfigs, lsServers,
                   lsUsers, hint, servers, now, last, universe, resp, stdio, pending>>

NextParse == ParseResponse

SpecParse == InitParse /\ [][NextParse]_vars

-----------------------------------------------------------------------------
(* The validation specification: validateServerConfig applied to descriptors
   that break any combination of rules *)

AnyDescriptors ==
    [id : {IdC},
     name : {"Weather Service", "", " "},
     url : {"http://localhost:8123/mcp", "localhost", ""},
     issuer : {"https://accounts.google.com", "accounts", ""},
     clientId : {"client-1", "", " "},
     scopes : {<<"openid", "email", "profile">>, <<"email", "profile">>, <<>>}]

InitValidate ==
    /\ clients = <<>>
    /\ tokens = Empty
    /\ serverConfigs = Empty
    /\ lsTokens = Empty
    /\ lsConfigs = Empty
    /\ lsServers = <<>>
    /\ lsUsers = Empty
    /\ hint = NoId
    /\ servers = <<>>
    /\ now = 0
    /\ \E server \in AnyDescriptors : last = [Did("init", NoId, "ok") EXCEPT !.server = server]
    /\ universe = [ids |-> {IdC}, idTokens |-> {"jwt"}]
    /\ resp = NoResponse
    /\ parsed = Pending
    /\ stdio = NoStdio
    /\ pending = NoPending

\* mcpClient.validateServerConfig(server) is called on the descriptor at hand.
Validate ==
    /\ last.op = "init"
    /\ last' = [Did("validateServerConfig", last.server.id,
                     IF Len(ValidateServerConfig(last.server)) = 0
                     THEN "valid" ELSE "invalid")
                 EXCEPT !.server = last.server,
                        !.errors = ValidateServerConfig(last.server)]
    /\ UNCHANGED <<clients, tokens, serverConfigs, lsTokens, lsConfigs, lsServers,
                   lsUsers, hint, servers, now, universe, resp, parsed, stdio, pending>>

NextValidate == Validate

SpecValidate == InitValidate /\ [][NextValidate]_vars

-----------------------------------------------------------------------------
(* The stdio specification *)

\* StartOperation with a fault: connect() builds a Client on every operation.
StartOperationAlwaysNew(p, tool) ==
    /\ stdio.pc[p] = "idle"
    /\ Len(stdio.conn) < MaxClients
    /\ stdio' = [stdio EXCEPT !.client = Len(stdio.conn) + 1,
                              !.conn = Append(@, "connecting"),
                              !.pc[p] = "awaitConnect",
                              !.awaits[p] = Len(stdio.conn) + 1,
                              !.tool[p] = tool,
                              !.sinceDisconnect = @ + 1,
                              !.step = [kind |-> "create", by |-> p]]
    /\ UNCHANGED appVars

\* listDirectory / getFileInfo (getCurrentWeather / getWeatherForecast) up to
\* the first suspension: connect() returns at once when this.client is set,
\* else it builds a Client, assigns it and awaits client.connect(transport).
StartOperation(p, tool) ==
    /\ stdio.pc[p] = "idle"
    /\ IF stdio.client # 0
       THEN stdio' = [stdio EXCEPT !.pc[p] = "call", !.tool[p] = tool,
                                   !.step = [kind |-> "reuse", by |-> p]]
       ELSE /\ Len(stdio.conn) < MaxClients
            /\ stdio' = [stdio EXCEPT !.client = Len(stdio.conn) + 1,
                                      !.conn = Append(@, "connecting"),
                                      !.pc[p] = "awaitConnect",
                                      !.awaits[p] = Len(stdio.conn) + 1,
                                      !.tool[p] = tool,
                                      !.sinceDisconnect = @ + 1,
                                      !.step = [kind |-> "create", by |-> p]]
    /\ UNCHANGED appVars

\* client.connect(transport) settles: resolved, the operation goes on to its
\* tool call; rejected, the operation rejects.
ConnectSettles(p, ok) ==
    /\ stdio.pc[p] = "awaitConnect"
    /\ stdio' = [stdio EXCEPT !.conn[stdio.awaits[p]] = IF ok THEN "connected" ELSE "failed",
                              !.pc[p] = IF ok THEN "call" ELSE "idle",
                              !.awaits[p] = 0,
                              !.step = [kind |-> IF ok THEN "connected" ELSE "connectFailed",
                                        by |-> p]]
    /\ UNCHANGED appVars

\* this.client.callTool(...): on null a TypeError, on a Client that is not
\* connected the SDK's error, else the tool's result.
CallTool(p) ==
    /\ stdio.pc[p] = "call"
    /\ stdio' = [stdio EXCEPT !.pc[p] = "idle",
                              !.step = [kind |-> "call", by |-> p],
                              !.call = [by |-> p, tool |-> stdio.tool[p],
                                        client |-> stdio.client,
                                        outcome |->
                                            IF stdio.client = 0 THEN "TypeError"
                                            ELSE IF stdio.conn[stdio.client] = "connected"
                                            THEN "ok" ELSE "NotConnected"]]
    /\ UNCHANGED appVars

\* disconnect() up to its suspension: nothing when this.client is null, else
\* it awaits this.client.close().
StartDisconnect(p) ==
    /\ stdio.pc[p] = "idle"
    /\ IF stdio.client = 0
       THEN stdio' = [stdio EXCEPT !.step = [kind |-> "nothingToClose", by |-> p]]
       ELSE stdio' = [stdio EXCEPT !.pc[p] = "awaitClose", !.awaits[p] = stdio.client,
                                   !.step = [kind |-> "closing", by |-> p]]
    /\ UNCHANGED appVars

\* client.close() settles: resolved, this.client is set to null; rejected,
\* disconnect rejects and this.client stays.
CloseSettles(p, ok) ==
    /\ stdio.pc[p] = "awaitClose"
    /\ stdio' = IF ok
                THEN [stdio EXCEPT !.conn[stdio.awaits[p]] = "closed",
                                   !.client = 0,
                                   !.pc[p] = "idle",
                                   !.awaits[p] = 0,
                                   !.sinceDisconnect = 0,
                                   !.step = [kind |-> "disconnected", by |-> p]]
                ELSE [stdio EXCEPT !.pc[p] = "idle",
                                   !.awaits[p] = 0,
                                   !.step = [kind |-> "closeFailed", by |-> p]]
    /\ UNCHANGED appVars

NextStdio ==
    \/ \E p \in Procs, tool \in StdioTools : StartOperation(p, tool)
    \/ \E p \in Procs, ok \in BOOLEAN : ConnectSettles(p, ok)
    \/ \E p \in Procs : CallTool(p)
    \/ \E p \in Procs : StartDisconnect(p)
    \/ \E p \in Procs, ok \in BOOLEAN : CloseSettles(p, ok)

SpecStdio == Init /\ [][NextStdio]_vars

-----------------------------------------------------------------------------
(* Claims about the Token Cache reads *)

\* A TokenRecord for id whose expiry (seconds) is strictly later than the clock (ms).
LiveRecord(id) ==
    /\ id \in DOMAIN tokens
    /\ tokens[id].expires_at * 1000 > now

\* C1: for every server id and every clock value, isAuthenticated(id) is true
\* exactly when the Token Cache holds a record for id whose expiry is strictly
\* later than now; and a step of the clock that reaches or passes the expiry
\* turns isAuthenticated(id) from true to false while the Token Cache and the
\* persisted token map stay as they were (nothing is deleted).
C1_IsAuthenticatedIffLive ==
    /\ [](\A id \in Ids : IsAuthenticated(id) <=> LiveRecord(id))
    /\ [][\A id \in Ids :
            (/\ IsAuthenticated(id)
             /\ last'.op = "tick"
             /\ now' >= tokens[id].expires_at * 1000)
            => (/\ ~IsAuthenticated(id)'
                /\ tokens' = tokens
                /\ lsTokens' = lsTokens)]_vars

\* C1 witness: the clock has just moved onto the expiry of a record that is
\* still cached, and isAuthenticated is now false for it.
C1_Witness ==
    /\ last.op = "tick"
    /\ \E id \in DOMAIN tokens :
          /\ now = tokens[id].expires_at * 1000
          /\ ~IsAuthenticated(id)

\* C2: each of the six protocol operations, invoked for a server with no
\* TokenRecord in the Token Cache, ends with the missing-token error and has
\* sent no HTTP request.
C2_NoRecordNoRequest ==
    (last.op \in ClientOps /\ last.id \notin DOMAIN tokens)
    => (last.outcome = "MissingTokenError" /\ last.fetches = 0 /\ last.bearer = "")

\* C2 witness: callTool was refused for a server without a record while
\* another server has one.
C2_Witness ==
    /\ last.op = "callTool"
    /\ last.id \notin DOMAIN tokens
    /\ last.outcome = "MissingTokenError"
    /\ DOMAIN tokens # {}

\* C3 (as claimed): a protocol operation invoked while isAuthenticated(server)
\* is false, a cached but expired record included, ends with the missing-token
\* error and sends no request.
C3_NoLiveTokenNoRequest ==
    (last.op \in ClientOps /\ ~IsAuthenticated(last.id))
    => (last.outcome = "MissingTokenError" /\ last.fetches = 0)

-----------------------------------------------------------------------------
(* Claims about registration and removal *)

Registered(id) ==
    \/ Has(clients, id)
    \/ id \in DOMAIN serverConfigs
    \/ id \in DOMAIN lsConfigs
    \/ InWorkingSet(servers, id)
    \/ InWorkingSet(lsServers, id)

C5_RemovalTouchesOnlyOwnKeys ==
    [][(last'.op = "removeServer" /\ last'.id \in DOMAIN serverConfigs)
       => /\ \A k \in DOMAIN lsUsers' : ~StartsWith(k, StorePrefix(last'.id))
          /\ \A id \in (DOMAIN serverConfigs) \ {last'.id} :
                /\ UserKey(id) \in DOMAIN lsUsers
                      => (/\ UserKey(id) \in DOMAIN lsUsers'
                          /\ lsUsers'[UserKey(id)] = lsUsers[UserKey(id)])
                /\ id \in DOMAIN lsConfigs
                      => (id \in DOMAIN lsConfigs' /\ lsConfigs'[id] = lsConfigs[id])
                /\ id \in DOMAIN lsTokens
                      => (id \in DOMAIN lsTokens' /\ lsTokens'[id] = lsTokens[id])]_vars

\* C6 (as claimed): after removeServer(S) neither persisted map has an entry
\* for S, and the Session, TokenRecord and descriptor of S are gone from memory.
C6_RemovalClearsAggregateMaps ==
    last.op = "removeServer"
    => /\ last.id \notin DOMAIN lsConfigs
       /\ last.id \notin DOMAIN lsTokens
       /\ ~Has(clients, last.id)
       /\ last.id \notin DOMAIN tokens
       /\ last.id \notin DOMAIN serverConfigs

-----------------------------------------------------------------------------
(* Claims about the callback router *)

CallbackFailed == last.outcome \in {"NoClientError", "CallbackError"}

\* C7 (as claimed): when handleCallback has an id (given, or read from the
\* hint), the flow is completed on the Session of that id, or, when no Session
\* can be resolved for it, on none and the callback fails.
C7_CallbackOnNamedSessionOnly ==
    (last.op = "handleCallback" /\ last.target # NoId)
    => \/ last.on = last.target
       \/ (last.on = NoId /\ last.outcome = "NoClientError")

\* C8 (as claimed): handleCallback with no id given and no hint, while two or
\* more Sessions are in memory, fails and completes the flow on no Session.
C8_NoHintFailsWithSeveralSessions ==
    (last.op = "handleCallback" /\ last.target = NoId /\ Len(clients) >= 2)
    => (CallbackFailed /\ last.on = NoId)

-----------------------------------------------------------------------------
(* Claims about response parsing, stated on the raw body *)

\* Positions at which a line of the text starts.
LineStarts(text) == {p \in 1..Len(text) : p = 1 \/ text[p - 1] = "\n"}

\* Start positions of the lines that begin with "data: ".
DataStarts(text) == {p \in LineStarts(text) : text[p] = "data: "}

LastDataStart(text) ==
    CHOOSE p \in DataStarts(text) : \A q \in DataStarts(text) : q <= p

\* Position just past the line that starts at p.
LineEnd(text, p) ==
    IF \E q \in p..Len(text) : text[q] = "\n"
    THEN CHOOSE q \in p..Len(text) :
            /\ text[q] = "\n"
            /\ \A r \in p..(q - 1) : text[r] # "\n"
    ELSE Len(text) + 1

LastDataPayload(text) ==
    LET p == LastDataStart(text)
    IN  SubSeq(text, p + 1, LineEnd(text, p) - 1)

\* The text is one JSON value with whitespace around it.
IsJsonText(text) ==
    \E i \in 1..Len(text) :
        /\ text[i] \in {"A", "B"}
        /\ \A j \in (1..Len(text)) \ {i} : text[j] \in {" ", "\n"}

JsonTextValue(text) ==
    EnvOf(text[CHOOSE i \in 1..Len(text) : text[i] \in {"A", "B"}])

Answered2xx == parsed # Pending /\ resp.status >= 200 /\ resp.status < 300

SaysEventStream == \E i \in 1..Len(resp.ctype) : resp.ctype[i] = "text/event-stream"

\* C9: for a 2xx event-stream response with at least one line beginning with
\* "data: ", what makeRequest returns is the parse of the payload of the last
\* such line, and of nothing else: when that payload is JSON the result is its
\* envelope, whatever the earlier data lines hold.
C9_LastDataLineDecides ==
    (Answered2xx /\ SaysEventStream /\ DataStarts(resp.body) # {})
    => IF IsJsonText(LastDataPayload(resp.body))
       THEN /\ parsed.kind = "ok"
            /\ parsed.data = JsonTextValue(LastDataPayload(resp.body))
       ELSE parsed.kind # "ok"

\* C9 witness: two data lines with different envelopes; the second was returned.
C9_Witness ==
    /\ Answered2xx
    /\ SaysEventStream
    /\ resp.body = <<"data: ", "A", "\n", "data: ", "B">>
    /\ parsed.kind = "ok"
    /\ parsed.data = EnvOf("B")

ProtocolErrors == {"NoDataError", "SyntaxError"}

\* C10: a 2xx response ends in a protocol error and yields no result when it is
\* an event-stream body without a data line, or when the text to parse (the
\* last data line's payload, or the whole body otherwise) is not JSON.
C10_UnusableBodyIsProtocolError ==
    (/\ Answered2xx
     /\ IF SaysEventStream
        THEN \/ DataStarts(resp.body) = {}
             \/ ~IsJsonText(LastDataPayload(resp.body))
        ELSE ~IsJsonText(resp.body))
    => (parsed.kind \in ProtocolErrors /\ parsed.data = NoEnv)

\* C10 witness: an event-stream body whose only "data: " is not at the start
\* of a line was refused for lack of data.
C10_Witness ==
    /\ Answered2xx
    /\ SaysEventStream
    /\ resp.body = <<" ", "data: ", "A">>
    /\ parsed.kind = "NoDataError"

-----------------------------------------------------------------------------
(* Claims about failed and answered requests *)

\* The response is an HTTP response with a status outside 200..299.
AnsweredNon2xx == resp.status # 0 /\ (resp.status < 200 \/ resp.status > 299)

\* C11: a non-2xx response makes the request fail whatever its body holds:
\* status 401 gives the authentication error, which is not the local
\* missing-token error; any other status gives the transport error quoting that
\* status; no envelope is returned.
C11_Non2xxFailsUnparsed ==
    (parsed # Pending /\ AnsweredNon2xx)
    => /\ parsed.data = NoEnv
       /\ IF resp.status = 401
          THEN parsed.kind = "AuthRequired" /\ parsed.kind # "MissingTokenError"
          ELSE parsed.kind = "HttpError" /\ parsed.status = resp.status

\* C11 witness: a 404 whose body is a well-formed envelope, and which was refused
\* with the transport error.
C11_Witness ==
    /\ parsed.kind = "HttpError"
    /\ resp.status = 404
    /\ JsonParses(resp.body)

\* The operation sent a request that was answered 2xx with a well-formed envelope.
GotEnvelope ==
    /\ last.op \in ClientOps
    /\ last.fetches = 1
    /\ ResponseOk(last.response)
    /\ JsonParses(last.response.body)

\* C12 (as claimed): for each of the six operations, an envelope with an error
\* object makes the operation fail with an RPC error exposing that object, and
\* an envelope without one makes it return the envelope's result field.
C12_ErrorObjectFailsElseResult ==
    GotEnvelope
    => LET env == JsonValue(last.response.body)
       IN  IF env.error # NoError
           THEN last.outcome = "RpcError" /\ last.exposed = env.error
           ELSE /\ last.outcome = "ok"
                /\ last.value = [path |-> <<"result">>, env |-> env]

-----------------------------------------------------------------------------
(* Claims about sign-out, removal and lookup *)

\* C13 (as claimed): signOut on a server with a Session ends with the server's
\* TokenRecord gone from the Token Cache and from the persisted token map,
\* whether the sign-out redirect succeeded or threw.
C13_SignOutAlwaysClearsToken ==
    (last.op = "signOut" /\ last.outcome # "NoClientError")
    => /\ last.id \notin DOMAIN tokens
       /\ last.id \notin DOMAIN lsTokens

\* C14 (as claimed): removeServer for an id that is not registered changes
\* neither the Session map, the Token Cache, the descriptor map nor any key the
\* registry persists.
C14_RemovingUnknownIdIsNoOp ==
    [][(/\ last'.op = "removeServer"
        /\ last'.id \notin DOMAIN serverConfigs
        /\ ~Has(clients, last'.id))
       => /\ last'.outcome = "ok"
          /\ UNCHANGED <<clients, tokens, serverConfigs, lsTokens, lsConfigs,
                         lsUsers>>]_vars

\* C15: ensureClient, as handleCallback runs it for the id it resolved: a
\* Session in memory is returned and nothing is built; with none in memory and
\* a persisted descriptor, a Session is built from that descriptor, put in the
\* Session map and returned; with neither, nothing is returned, nothing is
\* built or persisted, and the callback goes on without an error from the lookup.
C15_LookupOrRecreate ==
    [][(last'.op = "handleCallback" /\ last'.target # NoId)
       => LET id == last'.target
          IN  IF Has(clients, id)
              THEN /\ last'.found = id
                   /\ ~last'.recreated
                   /\ UNCHANGED <<clients, serverConfigs, lsConfigs>>
              ELSE IF id \in DOMAIN lsConfigs
              THEN /\ last'.found = id
                   /\ last'.recreated
                   /\ clients' = Append(clients, id)
                   /\ serverConfigs'[id] = lsConfigs[id]
                   /\ UNCHANGED lsConfigs
              ELSE /\ last'.found = NoId
                   /\ ~last'.recreated
                   /\ UNCHANGED <<clients, serverConfigs, lsConfigs>>
                   /\ Len(clients) > 0 => last'.on = clients[1]]_vars

\* C15 witness: a callback whose lookup built the Session of its id from the
\* descriptor map, the Session now being in the Session map.
C15_Witness ==
    /\ last.op = "handleCallback"
    /\ last.recreated
    /\ last.found = last.target
    /\ Has(clients, last.target)
    /\ last.target \in DOMAIN lsConfigs

-----------------------------------------------------------------------------
(* Claims about isolation, races and reloads *)

FlowOps == {"authenticate", "handleCallback", "signOut"} \cup ClientOps

\* C16 (as claimed): an authenticate, callback, signOut or protocol call of
\* server A's flow, failed or not, leaves the Session and the Token Cache entry
\* of every other server B as they were; no token of A's flow lands under B.
C16_OtherServersUntouched ==
    [][(last'.op \in FlowOps /\ last'.target # NoId)
       => \A B \in Ids \ {last'.target} :
             /\ Has(clients', B) = Has(clients, B)
             /\ (B \in DOMAIN tokens') = (B \in DOMAIN tokens)
             /\ B \in DOMAIN tokens => tokens'[B] = tokens[B]]_vars

\* C17: authenticate for an id whose Session is gone fails with the
\* no-client error, starts no redirect, writes no callback hint and changes
\* nothing in the registry.
C17_AuthenticateAfterRemoveFailsCleanly ==
    [][(last'.op = "authenticate" /\ ~Has(clients, last'.id))
       => /\ last'.outcome = "NoClientError"
          /\ UNCHANGED <<hint, clients, tokens, serverConfigs, lsTokens, lsConfigs,
                         lsServers, lsUsers, servers>>]_vars

\* C17 witness: authenticate(S) called right after removeServer(S) ended with
\* the no-client error, another Session being in memory.
C17_Witness ==
    /\ last.op = "authenticate"
    /\ last.afterRemove
    /\ last.outcome = "NoClientError"
    /\ hint # last.id
    /\ Len(clients) > 0

\* C18 (as claimed): a second handleCallback for the same redirect ends in an
\* error, is routed to the server the first one was routed to, and leaves the
\* Token Cache as the first one left it.
C18_SecondCallbackSameServer ==
    [][(last'.op = "handleCallback" /\ last'.again)
       => /\ last'.outcome \in {"CallbackError", "NoClientError"}
          /\ last'.on = last.on
          /\ UNCHANGED tokens]_vars

\* C19 (as claimed): a reload leaves isAuthenticated(S) as it was, for every
\* id S, the clock being the same.
C19_ReloadKeepsAuthenticated ==
    [][last'.op = "reload"
       => \A id \in Ids :
             (id \in DOMAIN tokens' /\ now' < tokens'[id].expires_at * 1000)
             = IsAuthenticated(id)]_vars

\* C20: an operation sends at most one request, and when the request or the
\* parsing of its answer fails, that failure is the operation's outcome and
\* nothing is returned.
C20_NoRetries ==
    last.op \in ClientOps
    => /\ last.fetches <= 1
       /\ (last.fetches = 1 /\ MakeRequest(last.response).kind # "ok")
          => /\ last.outcome = MakeRequest(last.response).kind
             /\ last.value = NoValue

\* C20 witness: an operation whose fetch was rejected ended with the network
\* error after one request.
C20_Witness ==
    /\ last.op \in ClientOps
    /\ last.fetches = 1
    /\ FetchRejected(last.response)
    /\ last.outcome = "NetworkError"

-----------------------------------------------------------------------------
(* Claims about validation and repeated calls *)

Rules == {"name", "url", "issuer", "clientId", "openid"}

\* The descriptor breaks the rule.
Violates(rule, server) ==
    CASE rule = "name"     -> server.name \in {"", " "}
      [] rule = "url"      -> server.url \notin WellFormedUrls
      [] rule = "issuer"   -> server.issuer \notin WellFormedUrls
      [] rule = "clientId" -> server.clientId \in {"", " "}
      [] rule = "openid"   -> \A i \in 1..Len(server.scopes) : server.scopes[i] # "openid"

\* The entries of the error list that report the rule.
EntriesFor(rule) ==
    CASE rule = "name"     -> {"Server name is required"}
      [] rule = "url"      -> {"Valid server URL is required"}
      [] rule = "issuer"   -> {"Valid OIDC issuer URL is required"}
      [] rule = "clientId" -> {"OIDC client ID is required"}
      [] rule = "openid"   -> {"OIDC scopes are required", "OIDC scopes must include \"openid\""}

\* C21: validateServerConfig changes no state, answers valid exactly when no
\* rule is broken, and its error list reports every broken rule and no other.
C21_ValidateReportsEveryRule ==
    /\ [](last.op = "validateServerConfig"
          => /\ (last.outcome = "valid") = (\A r \in Rules : ~Violates(r, last.server))
             /\ (last.outcome = "valid") = (Len(last.errors) = 0)
             /\ \A r \in Rules :
                   Violates(r, last.server)
                   = (\E i \in 1..Len(last.errors) : last.errors[i] \in EntriesFor(r)))
    /\ [][last'.op = "validateServerConfig"
          => UNCHANGED <<clients, tokens, serverConfigs, lsTokens, lsConfigs,
                         lsServers, lsUsers, hint, servers>>]_vars

\* C21 witness: a descriptor that breaks the name, issuer and scope rules was
\* validated and each of the three is reported.
C21_Witness ==
    /\ last.op = "validateServerConfig"
    /\ last.outcome = "invalid"
    /\ {r \in Rules : Violates(r, last.server)} = {"name", "issuer", "openid"}
    /\ Len(last.errors) >= 3

-----------------------------------------------------------------------------
(* Claims about the callback hint, startup and the restore probe *)

\* C24: a handleCallback without a caller-supplied id takes its id from the
\* hint and leaves the hint store empty, so a second handleCallback without an
\* id finds no hint to be routed by.
C24_HintConsumedOnce ==
    [][(last'.op = "handleCallback" /\ last'.id = NoId)
       => /\ last'.target = hint
          /\ hint' = NoId
          /\ last'.again => last'.target = NoId]_vars

\* C24 witness: a callback without an id was routed by the hint and completed,
\* and the hint store is empty.
C24_Witness ==
    /\ last.op = "handleCallback"
    /\ ~last.again
    /\ last.id = NoId
    /\ last.target # NoId
    /\ last.on = last.target
    /\ last.outcome = "ok"
    /\ hint = NoId

\* C25: authenticate(S) with a Session leaves S as the one value of the hint
\* store, whatever was there and whether or not the redirect then succeeds; a
\* callback without an id is routed to the id in the hint store.
C25_LastAuthenticateOwnsHint ==
    /\ [][(last'.op = "authenticate" /\ Has(clients, last'.id))
          => /\ hint' = last'.id
             /\ last'.outcome \in {"redirect", "RedirectError"}]_vars
    /\ [][(last'.op = "handleCallback" /\ last'.id = NoId /\ hint # NoId)
          => /\ last'.target = hint
             /\ Has(clients, hint) => last'.on = hint]_vars

\* C25 witness: authenticate(B) started a redirect while the hint of another
\* server was in the store, and the hint is now B.
C25_Witness ==
    /\ last.op = "authenticate"
    /\ last.outcome = "redirect"
    /\ last.hintBefore # NoId
    /\ last.hintBefore # last.id
    /\ hint = last.id

\* C26: the constructor leaves in the Token Cache exactly the persisted
\* records whose expiry is later than the clock, each under its id, unchanged.
C26_RehydratedExactlyLive ==
    [][last'.op = "reload"
       => /\ DOMAIN last'.loaded
               = {id \in DOMAIN lsTokens : lsTokens[id].expires_at * 1000 > now}
          /\ \A id \in DOMAIN last'.loaded : last'.loaded[id] = lsTokens[id]]_vars

\* C26 witness: a reload loaded one persisted record and left out another,
\* which is expired.
C26_Witness ==
    /\ last.op = "reload"
    /\ DOMAIN last.loaded # {}
    /\ \E id \in DOMAIN lsTokens :
          /\ id \notin DOMAIN last.loaded
          /\ lsTokens[id].expires_at * 1000 <= now

LiveStoredUser(id) ==
    /\ UserKey(id) \in DOMAIN lsUsers
    /\ lsUsers[UserKey(id)].expires_at * 1000 > (now \div 1000) * 1000

\* The Token Cache entry of id in cache is what the stored user of id gives.
RecordedFromUser(cache, id) ==
    /\ id \in DOMAIN cache
    /\ cache[id] = [id_token |-> lsUsers[UserKey(id)].id_token,
                    expires_at |-> lsUsers[UserKey(id)].expires_at]

SameEntry(cacheA, cacheB, id) ==
    /\ (id \in DOMAIN cacheA) = (id \in DOMAIN cacheB)
    /\ id \in DOMAIN cacheA => cacheA[id] = cacheB[id]

\* C28: registering a server (from the form, or again at startup) succeeds, and
\* its restore probe records the stored user's token iff the probe returned a
\* stored user that is not expired; otherwise the server's Token Cache entry
\* stays as it was.
C28_ProbeRecordsOnlyLiveUser ==
    /\ [][(last'.op = "addServer" /\ last'.outcome = "ok")
          => /\ Has(clients', last'.id)
             /\ IF last'.probeOk /\ LiveStoredUser(last'.id)
                THEN RecordedFromUser(tokens', last'.id)
                ELSE SameEntry(tokens', tokens, last'.id)]_vars
    /\ [][last'.op = "reload"
          => \A i \in 1..Len(lsServers) :
                LET id == lsServers[i].server.id
                IN  /\ Has(clients', id)
                    /\ IF last'.probeOk /\ LiveStoredUser(id)
                       THEN RecordedFromUser(tokens', id)
                       ELSE SameEntry(tokens', last'.loaded, id)]_vars

\* C28 witness: at startup the probe recorded a token for a server that had
\* none in the persisted token map.
C28_Witness ==
    /\ last.op = "reload"
    /\ last.probeOk
    /\ \E id \in DOMAIN tokens : id \notin DOMAIN last.loaded

-----------------------------------------------------------------------------
(* Claims about the token events *)

\* C29: at the delivery of a token-updated event for S, the Token Cache and the
\* persisted token map hold for S the TokenRecord the event carries; at the
\* delivery of a token-removed event for S, neither holds a record for S.
C29_EventAfterCacheAndStore ==
    \A i \in 1..Len(last.events) :
        LET e == last.events[i]
        IN  IF e.type = "oidc:token-updated"
            THEN e.tokenInfo # NoToken /\ e.cached = e.tokenInfo /\ e.persisted = e.tokenInfo
            ELSE e.type = "oidc:token-removed" /\ e.cached = NoToken /\ e.persisted = NoToken

\* C29 witness: a renewal replaced the record of a server, and its
\* token-updated event was delivered with the new record in cache and store.
C29_Witness ==
    /\ last.op = "userLoaded"
    /\ Len(last.events) = 1
    /\ last.events[1].type = "oidc:token-updated"
    /\ last.events[1].serverId = last.id
    /\ last.events[1].cached = tokens[last.id]
    /\ lsTokens[last.id] = last.events[1].tokenInfo

\* C30 (as claimed): whenever signOut, a user-signed-out event or removeServer
\* takes a TokenRecord out of the Token Cache, a token-removed event for that
\* server is dispatched.
C30_EveryRemovalAnnounced ==
    [][last'.op \in {"signOut", "userSignedOut", "removeServer"}
       => \A id \in DOMAIN tokens :
             id \notin DOMAIN tokens'
             => \E i \in 1..Len(last'.events) :
                   /\ last'.events[i].type = "oidc:token-removed"
                   /\ last'.events[i].serverId = id]_vars

-----------------------------------------------------------------------------
(* Claims about the stdio tool clients *)

-----------------------------------------------------------------------------
(* Claims about the working set, the hint and the two reads together *)

\* The ids of the events dispatched during the step just taken.
EventIds(events) == {events[k].serverId : k \in 1..Len(events)}

Kept(before, after, ids) ==
    \A i \in 1..Len(before) :
        before[i].server.id \notin ids
        => \E j \in 1..Len(after) : after[j] = before[i]

\* C33 (as claimed): when a token-updated or token-removed event for a server
\* is delivered to the ServerProvider listeners, every other server of the
\* working set and of the persisted mcp_servers list is still there afterwards,
\* with the same descriptor and status.
C33_EventChangesOnlyItsServer ==
    [][(/\ last'.op \in {"handleCallback", "userLoaded", "userSignedOut"}
        /\ last'.events # <<>>)
       => /\ Kept(servers, servers', EventIds(last'.events))
          /\ Kept(lsServers, lsServers', EventIds(last'.events))]_vars

\* C34 (as claimed): in every reachable state every id with a TokenRecord in
\* the Token Cache or in the persisted token map has a registered descriptor.
C34_TokenOnlyForRegistered ==
    \A id \in (DOMAIN tokens) \cup (DOMAIN lsTokens) :
        id \in DOMAIN serverConfigs /\ id \in DOMAIN lsConfigs

\* C37 (as claimed): whenever isAuthenticated(S) is true, getIdToken(S) is a
\* non-empty token, and a protocol operation for S does not end with the
\* missing-token error.
C37_ReadsAgree ==
    /\ \A id \in Ids : IsAuthenticated(id) => GetIdToken(id) # ""
    /\ (last.op \in ClientOps /\ IsAuthenticated(last.id))
       => last.outcome # "MissingTokenError"

\* C38 (as claimed): once handleCallback has returned or thrown, by the hint or
\* by an id its caller supplied, no hint is left in the hint store.
C38_NoHintAfterCallback ==
    last.op = "handleCallback" => hint = NoId

-----------------------------------------------------------------------------
(* Claims about refreshServerTools and the status of a server *)

EntryOf(list, id) == list[CHOOSE i \in 1..Len(list) : list[i].server.id = id]

StatusOf(list, id) == EntryOf(list, id).status

ToolsOf(list, id) == EntryOf(list, id).tools

\* C31 (as claimed): whenever a server's status is set to connected, by a
\* token-updated event or by a refresh that succeeded, isAuthenticated is true
\* for that server at that instant.
C31_ConnectedOnlyWhenAuthenticated ==
    [][/\ (/\ last'.op = "refreshSettled"
           /\ last'.outcome = "ok"
           /\ InWorkingSet(servers', last'.id)
           /\ StatusOf(servers', last'.id) = "connected")
          => IsAuthenticated(last.id)'
       /\ \A k \in 1..Len(last'.events) :
             last'.events[k].type = "oidc:token-updated"
             => now' < last'.events[k].cached.expires_at * 1000]_vars

AllowedTransitions ==
    {<<"disconnected", "connected">>, <<"connected", "disconnected">>,
     <<"connected", "error">>, <<"error", "connected">>}

\* C32 (as claimed): every change of the status of a server in the working set
\* is one of Disconnected -> Connected, Connected -> Disconnected,
\* Connected -> Error, Error -> Connected; and a refresh that fails for want of
\* a token or with 401 leaves the server Disconnected.
C32_StatusTransitions ==
    [][/\ \A id \in Ids :
             (/\ InWorkingSet(servers, id)
              /\ InWorkingSet(servers', id)
              /\ StatusOf(servers', id) # StatusOf(servers, id))
             => <<StatusOf(servers, id), StatusOf(servers', id)>> \in AllowedTransitions
       /\ (/\ last'.op \in {"refreshServerTools", "refreshSettled"}
           /\ last'.outcome \in {"MissingTokenError", "AuthRequired"}
           /\ InWorkingSet(servers', last'.id))
          => StatusOf(servers', last'.id) = "disconnected"]_vars

\* C35 (as claimed): two refreshes for different servers of the working set
\* are in flight together and both succeed, one right after the other; after
\* the second each server has exactly the tools fetched for it.
C35_ConcurrentRefreshesBothApply ==
    [][(/\ last.op = "refreshSettled" /\ last.outcome = "ok"
        /\ last'.op = "refreshSettled" /\ last'.outcome = "ok"
        /\ last'.id # last.id
        /\ last'.id \in DOMAIN pending.calls
        /\ InWorkingSet(servers, last.id)
        /\ InWorkingSet(servers, last'.id))
       => /\ InWorkingSet(servers', last.id)
          /\ InWorkingSet(servers', last'.id)
          /\ ToolsOf(servers', last.id) = last.tools
          /\ ToolsOf(servers', last'.id) = last'.tools]_vars

\* id was in the working set when the refresh for `of` started and has been
\* removed since.
RemovedDuring(id, of) ==
    /\ InWorkingSet(pending.calls[of].closure, id)
    /\ ~Registered(id)
    /\ ~InWorkingSet(lsServers, id)

\* C36 (as claimed): when a refresh completes, a server removed while it was
\* in flight is in neither the working set nor the persisted mcp_servers list.
C36_RemovedStaysRemoved ==
    [][last'.op = "refreshSettled"
       => \A id \in Ids :
             RemovedDuring(id, last'.id)
             => /\ ~InWorkingSet(servers', id)
                /\ ~InWorkingSet(lsServers', id)]_vars

\* C39 (as claimed): a tool call is issued only through a Client whose connect
\* has completed successfully; after a failed connect, or while a connect
\* started by another operation is pending, an operation connects first.
C39_CallsOnlyThroughConnectedClient ==
    stdio.step.kind = "call" => stdio.call.outcome = "ok"

====
